---- MODULE Spec2Model ----
(***************************************************************************)
(* Model of lang-bridge's src/main.py: the driver main(), the directory    *)
(* lister list_files_in_dir, the per-file pipeline generate_audio_file and *)
(* text_to_speech.  Strings are tuples of one-character strings so that    *)
(* str.strip, os.path.basename, os.path.splitext and os.path.join are      *)
(* computed, not assumed.  An audio timeline is the sequence of segments   *)
(* that were concatenated with AudioSegment's + and +=.                    *)
(* The external collaborators (os.listdir, os.makedirs, open, gTTS,        *)
(* AudioSegment.silent, AudioSegment.export) either return or raise; which *)
(* one happens is the environment's choice.                                *)
(***************************************************************************)
EXTENDS Integers, Sequences, FiniteSets, TLC

\* ---------------------------------------------------------------- bounds
MaxFiles == 2
MaxLines == 3

\* ---------------------------------------------------------------- inputs
\* Directory entries the input directory may hold (regular files).
FileNames ==
    { <<"a", ".", "t", "x", "t">>,
      <<"a", ".", "m", "d">>,
      <<".", "b">> }

\* Lines as file iteration yields them (the newline is kept by Python).
Hello  == <<"H", "e", "l", "l", "o", "\n">>
Blank  == <<"\n">>
Padded == <<" ", "H", "i", "\t", "\n">>
World  == <<"W", "o", "r", "l", "d">>
LineSet == {Hello, Blank, Padded, World}

\* --silence_duration values (argparse type=int; 2000 is the default).
SilenceDurations == {0, 2000}

input_dir  == <<"i", "n">>
output_dir == <<"o", "u", "t">>

\* ------------------------------------------------------- pure functions
IsSpace(c) == c \in {" ", "\t", "\n", "\r"}

RECURSIVE lstrip(_)
lstrip(s) == IF s = <<>> THEN s
             ELSE IF IsSpace(Head(s)) THEN lstrip(Tail(s)) ELSE s

RECURSIVE rstrip(_)
rstrip(s) == IF s = <<>> THEN s
             ELSE IF IsSpace(s[Len(s)]) THEN rstrip(SubSeq(s, 1, Len(s) - 1)) ELSE s

\* A mutant of strip: the line is used as read.
strip_identity(s) == s

\* str.strip()
strip(s) == rstrip(lstrip(s))

\* str.rfind(c), 1-based; 0 when c does not occur.
rfind(s, c) ==
    LET hits == {j \in 1..Len(s) : s[j] = c}
    IN  IF hits = {} THEN 0 ELSE CHOOSE j \in hits : \A k \in hits : k <= j

\* os.path.join(a, b) for two components.
path_join(a, b) ==
    IF b # <<>> /\ Head(b) = "/" THEN b
    ELSE IF a = <<>> \/ a[Len(a)] = "/" THEN a \o b
    ELSE a \o <<"/">> \o b

\* os.path.basename(p)
basename(p) == SubSeq(p, rfind(p, "/") + 1, Len(p))

\* os.path.splitext(p)[0]: the extension starts at the last dot of the last
\* component, leading dots of that component excepted.
splitext_root(p) ==
    LET sep == rfind(p, "/")
        dot == rfind(p, ".")
    IN  IF dot > sep /\ \E j \in (sep + 1)..(dot - 1) : p[j] # "."
        THEN SubSeq(p, 1, dot - 1)
        ELSE p

mp3_ext == <<".", "m", "p", "3">>

\* main(), lines 90-91: the output path of an input path.
OutputPathOf(p) == path_join(output_dir, splitext_root(basename(p)) \o mp3_ext)

\* AudioSegment.silent(duration=d): one silence segment.
Silent(d) == [kind |-> "silence", ms |-> d, text |-> <<>>]

\* text_to_speech(text): one synthesizedn segment of the text.
text_to_speech(text) == [kind |-> "speech", ms |-> -1, text |-> text]

\* A mutant of AppendLine: the silence is put before the clip.
AppendLine_silence_first(audio, text, silent) ==
    audio \o <<silent, text_to_speech(text)>>

\* line 61: combined_audio += text_to_speech(text) + silent_segment
AppendLine(audio, text, silent) == audio \o <<text_to_speech(text), silent>>


\* ----------------------------------------------------------------- state
VARIABLES
    pc,               \* position in main() / generate_audio_file()
    silence_duration, \* args.silence_duration
    outDir,           \* args.output_dir in the file system: "absent",
                      \* "existing" (there before the run) or "created"
    input_files,      \* main(): the list list_files_in_dir returned
    idx,              \* main(): how many entries of the for loop were taken
    input_path,       \* generate_audio_file(): parameter
    output_path,      \* generate_audio_file(): parameter
    silent_segment,   \* generate_audio_file(): local
    combined_audio,   \* generate_audio_file(): local, the timeline
    fileLines,        \* the lines the for loop of line 57 has been given so far
    status,           \* per listed file: outcome of its call
    attempts,         \* per listed file: calls of generate_audio_file
    synthesized,      \* per listed file: text_to_speech returned a clip for it
    exportCalls,      \* per listed file: calls of export
    outFiles,         \* files written into output_dir: [path, src]
    console           \* what was printed: <<message kind, subject>>

vars == <<pc, silence_duration, outDir, input_files, idx, input_path,
          output_path, silent_segment, combined_audio, fileLines,
          status, attempts, synthesized, exportCalls, outFiles, console>>

args    == <<silence_duration, outDir>>
locals  == <<input_path, output_path, silent_segment, combined_audio, fileLines>>
perFile == <<status, attempts, synthesized, exportCalls>>

\* What os.listdir + isfile may yield: distinct entries, in any order.
Listings ==
    UNION { {s \in [1..n -> FileNames] : \A i, j \in 1..n : i # j => s[i] # s[j]}
            : n \in 0..MaxFiles }

N == Len(input_files)

\* State after parser.parse_args() has succeeded.
Init ==
    /\ pc = "start"
    /\ silence_duration \in SilenceDurations
    /\ outDir \in {"absent", "existing"}
    /\ input_files = <<>>
    /\ idx = 0
    /\ input_path = <<>>
    /\ output_path = <<>>
    /\ silent_segment = Silent(0)
    /\ combined_audio = <<>>
    /\ fileLines = <<>>
    /\ status = <<>>
    /\ attempts = <<>>
    /\ synthesized = <<>>
    /\ exportCalls = <<>>
    /\ outFiles = {}
    /\ console = {}

\* generate_audio_file returns: its frame (parameters and locals) is gone.
Return ==
    /\ input_path' = <<>>
    /\ output_path' = <<>>
    /\ silent_segment' = Silent(0)
    /\ combined_audio' = <<>>
    /\ fileLines' = <<>>

\* ----------------------------------------------------- list_files_in_dir
\* lines 18-21 return normally; line 82 binds the result.
ListFilesOk ==
    /\ pc = "start"
    /\ \E names \in Listings :
         /\ input_files' = [i \in 1..Len(names) |-> path_join(input_dir, names[i])]
         /\ status' = [i \in 1..Len(names) |-> "pending"]
         /\ attempts' = [i \in 1..Len(names) |-> 0]
         /\ synthesized' = [i \in 1..Len(names) |-> FALSE]
         /\ exportCalls' = [i \in 1..Len(names) |-> 0]
    /\ pc' = "listed"
    /\ UNCHANGED <<args, idx, locals, outFiles, console>>

\* lines 22-24: FileNotFoundError or PermissionError is printed, [] returned.
ListFilesMissing ==
    /\ pc = "start"
    /\ console' = console \cup {<<"Error", input_dir>>}
    /\ input_files' = <<>>
    /\ pc' = "listed"
    /\ UNCHANGED <<args, idx, locals, perFile, outFiles>>

\* Any other exception of os.listdir (NotADirectoryError, other OSError) is
\* not named by the except clause of line 22 and leaves main().
ListFilesRaise ==
    /\ pc = "start"
    /\ pc' = "crashed"
    /\ UNCHANGED <<args, input_files, idx, locals, perFile, outFiles, console>>

\* ------------------------------------------------------------------ main
\* A mutant of CheckFiles: the early return of lines 83-85 is missing.
CheckFiles_no_return ==
    /\ pc = "listed"
    /\ pc' = "makedirs"
    /\ UNCHANGED <<args, input_files, idx, locals, perFile, outFiles, console>>

\* lines 83-85
CheckFiles ==
    /\ pc = "listed"
    /\ IF input_files = <<>>
       THEN /\ console' = console \cup {<<"No files to process.", <<>>>>}
            /\ pc' = "done"
       ELSE /\ console' = console
            /\ pc' = "makedirs"
    /\ UNCHANGED <<args, input_files, idx, locals, perFile, outFiles>>

\* A mutant of MakedirsOk: the directory is not created.
MakedirsOk_no_create ==
    /\ pc = "makedirs"
    /\ pc' = "loop"
    /\ UNCHANGED <<args, input_files, idx, locals, perFile, outFiles, console>>

\* line 87: os.makedirs(args.output_dir, exist_ok=True) returns.
MakedirsOk ==
    /\ pc = "makedirs"
    /\ outDir' = IF outDir = "absent" THEN "created" ELSE outDir
    /\ pc' = "loop"
    /\ UNCHANGED <<silence_duration, input_files, idx, locals, perFile, outFiles, console>>

\* line 87 raises (permission denied, the path is a regular file, ...); no
\* try statement encloses it.
MakedirsRaise ==
    /\ pc = "makedirs"
    /\ pc' = "crashed"
    /\ UNCHANGED <<args, input_files, idx, locals, perFile, outFiles, console>>

\* lines 89-92: the next entry of the for loop; generate_audio_file is called.
NextFile ==
    /\ pc = "loop"
    /\ idx < N
    /\ idx' = idx + 1
    /\ input_path' = input_files[idx + 1]
    /\ output_path' = OutputPathOf(input_files[idx + 1])
    /\ attempts' = [attempts EXCEPT ![idx + 1] = @ + 1]
    /\ pc' = "silent"
    /\ UNCHANGED <<args, input_files, silent_segment, combined_audio, fileLines,
                   status, synthesized, exportCalls, outFiles, console>>

\* line 89: the list is exhausted; main() returns.
LoopEnd ==
    /\ pc = "loop"
    /\ idx = N
    /\ pc' = "done"
    /\ UNCHANGED <<args, input_files, idx, locals, perFile, outFiles, console>>

\* ---------------------------------------------------- generate_audio_file
\* lines 52-53
BuildSilence ==
    /\ pc = "silent"
    /\ silent_segment' = Silent(silence_duration)
    /\ combined_audio' = <<>>
    /\ pc' = "open"
    /\ UNCHANGED <<args, input_files, idx, input_path, output_path, fileLines,
                   perFile, outFiles, console>>

\* line 52 raises (MemoryError / OverflowError for a duration too large to
\* allocate); it stands before the try of line 55.
BuildSilenceRaise ==
    /\ pc = "silent"
    /\ pc' = "crashed"
    /\ UNCHANGED <<args, input_files, idx, locals, perFile, outFiles, console>>

\* lines 62-64: the except clause of the read/synthesis loop.
ProcessingError ==
    /\ console' = console \cup {<<"Error processing file", input_path>>}
    /\ status' = [status EXCEPT ![idx] = "process_error"]
    /\ pc' = "loop"
    /\ Return
    /\ UNCHANGED <<args, input_files, idx, attempts, exportCalls, outFiles>>

\* line 56: open() returns.
OpenOk ==
    /\ pc = "open"
    /\ fileLines' = <<>>
    /\ pc' = "lines"
    /\ UNCHANGED <<args, input_files, idx, input_path, output_path, silent_segment,
                   combined_audio, perFile, outFiles, console>>

\* line 56 raises.
OpenRaise ==
    /\ pc = "open"
    /\ ProcessingError
    /\ UNCHANGED synthesized

\* line 57 raises while fetching the next line (a decoding or I/O error).
ReadRaise ==
    /\ pc = "lines"
    /\ ProcessingError
    /\ UNCHANGED synthesized

\* lines 57-60: the file yields a line that strips to nothing; it is skipped.
SkipBlank ==
    /\ pc = "lines"
    /\ Len(fileLines) < MaxLines
    /\ \E line \in LineSet :
         /\ strip(line) = <<>>
         /\ fileLines' = Append(fileLines, line)
    /\ UNCHANGED <<pc, args, input_files, idx, input_path, output_path, silent_segment,
                   combined_audio, perFile, outFiles, console>>

\* lines 57-61: the file yields a line with text; text_to_speech returns and
\* the clip and the silence are appended.
SpeakLine ==
    /\ pc = "lines"
    /\ Len(fileLines) < MaxLines
    /\ \E line \in LineSet :
         LET text == strip(line)
         IN  /\ text # <<>>
             /\ fileLines' = Append(fileLines, line)
             /\ combined_audio' = AppendLine(combined_audio, text, silent_segment)
    /\ synthesized' = [synthesized EXCEPT ![idx] = TRUE]
    /\ UNCHANGED <<pc, args, input_files, idx, input_path, output_path, silent_segment,
                   status, attempts, exportCalls, outFiles, console>>

\* A mutant of SpeakRaise: the error is printed but the function goes on to
\* the export.
SpeakRaise_no_return ==
    /\ pc = "lines"
    /\ Len(fileLines) < MaxLines
    /\ \E line \in LineSet :
         /\ strip(line) # <<>>
         /\ fileLines' = Append(fileLines, line)
    /\ console' = console \cup {<<"Error processing file", input_path>>}
    /\ status' = [status EXCEPT ![idx] = "process_error"]
    /\ pc' = "export"
    /\ UNCHANGED <<args, input_files, idx, input_path, output_path, silent_segment,
                   combined_audio, attempts, synthesized, exportCalls, outFiles>>

\* line 61: the file yields a line with text and text_to_speech raises
\* (network, gTTS, decoding of the reply).
SpeakRaise ==
    /\ pc = "lines"
    /\ Len(fileLines) < MaxLines
    /\ \E line \in LineSet : strip(line) # <<>>
    /\ ProcessingError
    /\ UNCHANGED synthesized

\* A mutant of EndOfFile: a file that produced no clip is not exported.
EndOfFile_skip_empty ==
    /\ pc = "lines"
    /\ IF combined_audio = <<>>
       THEN pc' = "loop" /\ Return
       ELSE pc' = "export" /\ UNCHANGED locals
    /\ UNCHANGED <<args, input_files, idx, perFile, outFiles, console>>

\* line 57: the file is exhausted; the with block and the try end normally.
EndOfFile ==
    /\ pc = "lines"
    /\ pc' = "export"
    /\ UNCHANGED <<args, input_files, idx, locals, perFile, outFiles, console>>

\* A mutant of ExportOk: an empty timeline is reported but nothing is written.
ExportOk_skip_empty ==
    /\ pc = "export"
    /\ outDir # "absent"
    /\ exportCalls' = [exportCalls EXCEPT ![idx] = @ + 1]
    /\ outFiles' = IF combined_audio = <<>> THEN outFiles
                   ELSE {f \in outFiles : f.path # output_path}
                        \cup {[path |-> output_path, src |-> idx]}
    /\ status' = [status EXCEPT ![idx] = "written"]
    /\ console' = console \cup {<<"Audio file generated", output_path>>}
    /\ pc' = "loop"
    /\ Return
    /\ UNCHANGED <<args, input_files, idx, attempts, synthesized>>

\* lines 67-68: export returns; the file at output_path now holds the
\* timeline combined_audio (a file already there is replaced).  A file can
\* only be created in a directory that exists.
ExportOk ==
    /\ pc = "export"
    /\ outDir # "absent"
    /\ exportCalls' = [exportCalls EXCEPT ![idx] = @ + 1]
    /\ outFiles' = {f \in outFiles : f.path # output_path}
                   \cup {[path |-> output_path, src |-> idx]}
    /\ status' = [status EXCEPT ![idx] = "written"]
    /\ console' = console \cup {<<"Audio file generated", output_path>>}
    /\ pc' = "loop"
    /\ Return
    /\ UNCHANGED <<args, input_files, idx, attempts, synthesized>>

\* lines 69-70: export raises; the error is printed and the function returns.
ExportRaise ==
    /\ pc = "export"
    /\ exportCalls' = [exportCalls EXCEPT ![idx] = @ + 1]
    /\ status' = [status EXCEPT ![idx] = "export_error"]
    /\ console' = console \cup {<<"Error exporting audio file", output_path>>}
    /\ pc' = "loop"
    /\ Return
    /\ UNCHANGED <<args, input_files, idx, attempts, synthesized, outFiles>>

Next ==
    \/ ListFilesOk
    \/ ListFilesMissing
    \/ ListFilesRaise
    \/ CheckFiles
    \/ MakedirsOk
    \/ MakedirsRaise
    \/ NextFile
    \/ LoopEnd
    \/ BuildSilence
    \/ BuildSilenceRaise
    \/ OpenOk
    \/ OpenRaise
    \/ ReadRaise
    \/ SkipBlank
    \/ SpeakLine
    \/ SpeakRaise
    \/ EndOfFile
    \/ ExportOk
    \/ ExportRaise

Spec == Init /\ [][Next]_vars

\* main() has returned or an exception has left it.
Terminated == pc \in {"done", "crashed"}

TypeOK ==
    /\ pc \in {"start", "listed", "makedirs", "loop", "silent", "open", "lines",
               "export", "done", "crashed"}
    /\ idx \in 0..N
    /\ Len(fileLines) <= MaxLines
    /\ \A i \in 1..N : status[i] \in {"pending", "process_error", "export_error", "written"}


\* ------------------------------------------------- vocabulary of the claims
\* Stated without strip: a line has text when some character is not white space.
NonBlank(line) == \E j \in 1..Len(line) : ~IsSpace(line[j])

\* The text of a line between its first and last non-space characters.
Trimmed(line) ==
    LET ns == {j \in 1..Len(line) : ~IsSpace(line[j])}
    IN  IF ns = {} THEN <<>>
        ELSE SubSeq(line, CHOOSE j \in ns : \A k \in ns : j <= k,
                          CHOOSE j \in ns : \A k \in ns : k <= j)

\* The timeline of a list of lines: (clip, silence) per line with text, in order.
RECURSIVE Expected(_, _)
Expected(lines, d) ==
    IF lines = <<>> THEN <<>>
    ELSE (IF NonBlank(Head(lines))
          THEN <<[kind |-> "speech", ms |-> -1, text |-> Trimmed(Head(lines))],
                 [kind |-> "silence", ms |-> d, text |-> <<>>]>>
          ELSE <<>>) \o Expected(Tail(lines), d)

SpokenAt(audio) == {j \in 1..Len(audio) : audio[j].kind = "speech"}

\* The calls of generate_audio_file that have returned.
Returned == {i \in 1..N : i < idx \/ (i = idx /\ pc \in {"loop", "done"})}

Written == {i \in 1..N : status[i] = "written"}

in_a_txt  == <<"i", "n", "/", "a", ".", "t", "x", "t">>
in_a_md   == <<"i", "n", "/", "a", ".", "m", "d">>
in_dot_b  == <<"i", "n", "/", ".", "b">>
out_a_mp3 == <<"o", "u", "t", "/", "a", ".", "m", "p", "3">>
out_dot_b_mp3 == <<"o", "u", "t", "/", ".", "b", ".", "m", "p", "3">>

\* ------------------------------------------------------------------ claims

\* C1 (as claimed): once the driver loop has started on a list of two or more
\* files, every listed file is processed whatever fails on the others, and a
\* file on which neither reading, synthesis nor export failed has its output
\* written: when the run is over no listed file is left unprocessed.
C1_FailureIsolation ==
    (Terminated /\ N >= 2 /\ idx >= 1) =>
        \A i \in 1..N :
            /\ attempts[i] = 1
            /\ status[i] \notin {"process_error", "export_error"} => status[i] = "written"

\* C2 (as claimed): whenever the listing is not empty, the run terminates
\* with every listed file attempted exactly once.
C2_AllAttemptedOnce ==
    /\ \A i \in 1..N : attempts[i] <= 1
    /\ (Terminated /\ N >= 1) => \A i \in 1..N : attempts[i] = 1

\* C3 (as claimed): at the end of a run the output files are as many as the
\* input files that yielded a non-blank line and were synthesized and
\* exported, each of these having an output file of its own.
C3_OneOutputPerTextFile ==
    pc = "done" =>
        LET texts == {i \in Written : synthesized[i]}
        IN  /\ Cardinality(outFiles) = Cardinality(texts)
            /\ \A i \in texts : [path |-> OutputPathOf(input_files[i]), src |-> i] \in outFiles

\* C3 (amended): the files written are exactly the <base name>.mp3 of the
\* inputs whose reading, synthesis and export succeeded, an input without any
\* non-blank line included; inputs that share a base name share one output
\* file, which the last of them wrote, so the output files are as many as
\* the distinct base names; and when main() returns every listed file was
\* either reported as failed or written.
C3_OutputsAreWrittenBaseNames ==
    /\ {f.path : f \in outFiles} = {OutputPathOf(input_files[i]) : i \in Written}
    /\ \A f \in outFiles :
         /\ f.src \in Written
         /\ f.path = OutputPathOf(input_files[f.src])
         /\ \A i \in Written : OutputPathOf(input_files[i]) = f.path => i <= f.src
    /\ Cardinality(outFiles)
         = Cardinality({splitext_root(basename(input_files[i])) : i \in Written})
    /\ \A i \in Written :
         /\ input_files[i] \in {in_a_txt, in_a_md} => \E f \in outFiles : f.path = out_a_mp3
         /\ input_files[i] = in_dot_b => \E f \in outFiles : f.path = out_dot_b_mp3
    /\ pc = "done" => \A i \in 1..N : status[i] # "pending"

\* C3 witness: a.txt and a.md were both written, one of them without a
\* single non-blank line, and one output file exists.
C3_Witness ==
    /\ pc = "done"
    /\ N = 2
    /\ Written = {1, 2}
    /\ ~synthesized[1]
    /\ synthesized[2]
    /\ Cardinality(outFiles) = 1

\* C4: when the lines of a file are read, the timeline holds one spoken
\* segment per non-blank line, exactly one silence segment lies between two
\* consecutive spoken segments, and every silence follows a spoken segment,
\* so a blank line adds nothing; for Hello, blank, World the spoken
\* segments are Hello and World.
C4_SpokenSeparatedBySilence ==
    pc = "export" =>
        LET k == Cardinality({j \in 1..Len(fileLines) : NonBlank(fileLines[j])})
            sp == SpokenAt(combined_audio)
        IN  /\ Cardinality(sp) = k
            /\ \A a, b \in sp :
                 (a < b /\ \A c \in sp : ~(a < c /\ c < b)) =>
                     /\ b = a + 2
                     /\ combined_audio[a + 1] = Silent(silence_duration)
            /\ \A j \in 1..Len(combined_audio) :
                 combined_audio[j].kind = "silence" => (j > 1 /\ (j - 1) \in sp)
            /\ fileLines = <<Hello, Blank, World>> =>
                 /\ Cardinality(sp) = 2
                 /\ combined_audio[1].text = <<"H", "e", "l", "l", "o">>
                 /\ combined_audio[2].kind = "silence"
                 /\ combined_audio[3].text = <<"W", "o", "r", "l", "d">>

\* C4 witness: the file Hello, blank, World with 2000 ms of silence has been
\* read to its end.
C4_Witness ==
    /\ pc = "export"
    /\ fileLines = <<Hello, Blank, World>>
    /\ silence_duration = 2000

\* C5: the timeline is empty before the first line and, after any number of
\* lines, is the (clip, silence) pairs of the lines read so far that have
\* text, in file order; this is the timeline export is given.
C5_TimelineIsFilteredLines ==
    /\ pc = "open" => combined_audio = <<>>
    /\ pc \in {"lines", "export"} =>
         combined_audio = Expected(fileLines, silence_duration)

\* C5 witness: a file with a padded line, a blank line and a plain line is
\* about to be exported.
C5_Witness ==
    /\ pc = "export"
    /\ fileLines = <<Padded, Blank, Hello>>
    /\ Len(combined_audio) = 4

\* C6: a file whose reading or synthesis failed had the failure printed,
\* export was never called for it, it wrote no output file, its call
\* returned to the loop, and the next listed file was attempted.
C6_ProcessingErrorSkipsExport ==
    \A i \in 1..N :
        status[i] = "process_error" =>
            /\ <<"Error processing file", input_files[i]>> \in console
            /\ exportCalls[i] = 0
            /\ \A f \in outFiles : f.src # i
            /\ i \in Returned
            /\ i = idx => (pc \in {"loop", "done"} /\ combined_audio = <<>>)
            /\ (Terminated /\ i < N) => attempts[i + 1] = 1

\* C6 witness: a file failed after a clip of it was appended, and the next
\* file was written.
C6_Witness ==
    \E i \in 1..N :
        /\ status[i] = "process_error"
        /\ synthesized[i]
        /\ i < N
        /\ status[i + 1] = "written"
        /\ pc = "done"

\* C7 (as claimed): after argument parsing no exception leaves main().
C7_NoFatalError == pc # "crashed"

\* C8: after a missing or permission-denied input directory was reported,
\* the list is empty, main() is at or past its early return without a
\* fault, the loop was never entered, the output directory was not touched
\* and nothing was written.
C8_UnreadableDirEndsQuietly ==
    <<"Error", input_dir>> \in console =>
        /\ input_files = <<>>
        /\ pc \in {"listed", "done"}
        /\ pc = "done" => <<"No files to process.", <<>>>> \in console
        /\ pc = "listed" => ENABLED Next
        /\ idx = 0
        /\ outDir # "created"
        /\ outFiles = {}

\* C8 witness: the error was printed and main() has returned.
C8_Witness ==
    /\ <<"Error", input_dir>> \in console
    /\ pc = "done"

\* C9: whenever an export is about to run, has run, or a file was written,
\* the output directory exists.
C9_OutDirBeforeExport ==
    (pc = "export" \/ outFiles # {} \/ \E i \in 1..N : exportCalls[i] > 0)
        => outDir # "absent"

\* C9 witness: the first export is about to run in a directory this run
\* created.
C9_Witness ==
    /\ pc = "export"
    /\ idx = 1
    /\ outDir = "created"

\* C10: a call that has returned either reported a read/synthesis error and
\* never called export, or called export exactly once; the count of
\* non-blank lines plays no part: a file of blank lines only reaches export
\* with an empty timeline and no clip synthesized, and is written if export
\* returns.
C10_ExportIffLoopCompleted ==
    /\ \A i \in 1..N :
         /\ exportCalls[i] = (IF status[i] \in {"written", "export_error"} THEN 1 ELSE 0)
         /\ i \in Returned => status[i] # "pending"
         /\ status[i] = "written" =>
              \E f \in outFiles : f.path = OutputPathOf(input_files[i])
    /\ pc = "export" =>
         /\ status[idx] = "pending"
         /\ synthesized[idx] = (\E j \in 1..Len(fileLines) : NonBlank(fileLines[j]))
         /\ ~synthesized[idx] => combined_audio = <<>>

\* C10 witness: a file for which nothing was synthesized was exported and
\* its output written.
C10_Witness ==
    \E i \in 1..N :
        /\ status[i] = "written"
        /\ ~synthesized[i]
        /\ exportCalls[i] = 1
        /\ \E f \in outFiles : f.src = i

====
